---- MODULE Spec2Model ----
(***************************************************************************)
(* Model of velox/common/process/TraceContext.cpp: the scoped per-label    *)
(* activation counter (TraceContext constructor and destructor), the       *)
(* per-thread label maps kept in a ThreadLocalRegistry, and the            *)
(* aggregator status() / statusLine().                                     *)
(*                                                                         *)
(* Every write of a TraceData field by the constructor or destructor is a  *)
(* separate step, because status() reads the maps of other threads without *)
(* synchronising with withValue(): the reader can observe every            *)
(* intermediate value of an entry.                                         *)
(***************************************************************************)
EXTENDS Integers, Sequences, FiniteSets

\* ---------------------------------------------------------------- bounds
MaxOps == 2        \* TraceContext constructions in a run of Spec
MaxSeqOps == 3     \* TraceContext constructions in a run of SpecSeq
MaxDepth == 2      \* live (nested) TraceContext instances per thread
MaxTime == 5       \* last clock reading, in ticks
SpecTicks == 2     \* clock ticks left for a run of Spec
TicksPerMs == 2    \* clock ticks per millisecond (scale of steady_clock)

Threads == {"A", "B"}
Labels == {"x", "y"}
NoThread == "none"

VARIABLES
  now,        \* std::chrono::steady_clock::now(), in ticks
  registered, \* the registry's collection: threads whose map is registered
  mutex,      \* the registry's membership mutex: "free" or "status"
  counts,     \* counts[t]: thread t's map label -> TraceData
  stack,      \* stack[t]: the live TraceContext instances of t, innermost last
  pc,         \* position of thread t inside a constructor or destructor
  ms,         \* the local `ms` of the destructor running on t
  spc,        \* position of the monitoring caller: "idle", "enum", "done"
  total,      \* status(): the map `total` being built / returned
  curT,       \* status(): the per-thread map being enumerated
  visitedL,   \* status(): keys of the current map already visited
  doneT,      \* status(): per-thread maps already enumerated
  opsLeft,    \* constructions that may still begin (bounds the model)
  ctors,      \* history: constructions of label l completed by live thread t
  durs,       \* history: the ms values of the completed activations of l on t
  usedTemp,   \* history: t has constructed a temporary context of l
  usedNested, \* history: t has constructed l while l was already active on t
  exitedCtors,\* history: enters of a never-temporary l on threads since exited
  stable,     \* history: no map changed since the current status() began
  entersFixed \* history: no constructor ran, no thread exited since status() began

vars == <<now, registered, mutex, counts, stack, pc, ms, spc, total, curT,
          visitedL, doneT, opsLeft, ctors, durs, usedTemp, usedNested,
          exitedCtors, stable, entersFixed>>

threadVars == <<registered, counts, stack, pc, ms, opsLeft, ctors, durs,
                usedTemp, usedNested, exitedCtors>>
statusVars == <<spc, total, curT, visitedL, doneT>>

\* ------------------------------------------------------------- helpers
Min(a, b) == IF a < b THEN a ELSE b
Max(a, b) == IF a > b THEN a ELSE b

RECURSIVE SumSeq(_)
SumSeq(s) == IF s = <<>> THEN 0 ELSE Head(s) + SumSeq(Tail(s))

RECURSIVE MaxSeq(_)
MaxSeq(s) == IF s = <<>> THEN 0 ELSE Max(Head(s), MaxSeq(Tail(s)))

\* A value-initialised TraceData (what operator[] inserts).
ZeroData == [numThreads |-> 0, numEnters |-> 0, totalMs |-> 0, maxMs |-> 0,
             startTime |-> 0]

EmptyMap == [l \in {} |-> ZeroData]

\* m[k] = v, inserting k when absent.
Put(m, k, v) == [l \in DOMAIN m \cup {k} |-> IF l = k THEN v ELSE m[l]]

\* counts.erase(it)
Erase(m, k) == [l \in DOMAIN m \ {k} |-> m[l]]

\* The entry of k, an absent entry read as all-zero.
Get(m, k) == IF k \in DOMAIN m THEN m[k] ELSE ZeroData

\* The innermost live TraceContext of t: the one LIFO scoping destroys next.
Top(t) == stack[t][Len(stack[t])]

\* Number of live TraceContext instances of label l on thread t.
Live(t, l) == Cardinality({i \in 1..Len(stack[t]) : stack[t][i].label = l})

\* duration_cast<milliseconds>(at - enterTime).count(): truncating division.
ElapsedMs(at, enterTime) == (at - enterTime) \div TicksPerMs

CtorPcs == {"register", "c_find", "c_incT", "c_start", "c_incE"}
DtorPcs == {"d_total", "d_max"}

\* A write to a per-thread map makes the running status() call unstable.
Touch == stable' = (stable /\ spc = "idle")

\* The process runs until a trap of statusLine() terminates it.
Running == spc # "crashed"

\* ---------------------------------------------------------------- Init
InitCommon ==
  /\ registered = {}
  /\ mutex = "free"
  /\ counts = [t \in Threads |-> EmptyMap]
  /\ stack = [t \in Threads |-> <<>>]
  /\ pc = [t \in Threads |-> "idle"]
  /\ ms = [t \in Threads |-> 0]
  /\ spc = "idle"
  /\ total = EmptyMap
  /\ curT = NoThread
  /\ visitedL = {}
  /\ doneT = {}
  /\ ctors = [t \in Threads |-> [l \in Labels |-> 0]]
  /\ durs = [t \in Threads |-> [l \in Labels |-> <<>>]]
  /\ usedTemp = [t \in Threads |-> [l \in Labels |-> FALSE]]
  /\ usedNested = [t \in Threads |-> [l \in Labels |-> FALSE]]
  /\ exitedCtors = [l \in Labels |-> 0]
  /\ stable = TRUE
  /\ entersFixed = TRUE

\* Two threads and a monitoring caller.
Init == InitCommon /\ now = MaxTime - SpecTicks /\ opsLeft = MaxOps

\* One thread alone, with a longer run.
InitSeq == InitCommon /\ now = 1 /\ opsLeft = MaxSeqOps

\* ---------------------------------------------------------------- clock
\* The readings steady_clock::now() can return next: the clock is monotonic
\* and is observed only when it is read, so `now` is the last reading and a
\* read returns it again or a later instant.
ClockReadings == now..MaxTime

\* ------------------------------------------------ TraceContext::TraceContext
\* Member initialisers: label_, enterTime_ = now(), isTemporary_; then
\* TraceHistory::push (an external ring buffer, no state of this model).
\* The first use of threadLocalTraceData on a thread constructs the
\* thread_local Reference, which registers the map under the mutex.
CtorBegin(t, l, tmp) ==
  /\ Running
  /\ pc[t] = "idle"
  /\ Len(stack[t]) < MaxDepth
  /\ opsLeft > 0
  /\ now' \in ClockReadings
  /\ stack' = [stack EXCEPT ![t] =
                 Append(@, [label |-> l, enterTime |-> now', isTemporary |-> tmp])]
  /\ pc' = [pc EXCEPT ![t] = IF t \in registered THEN "c_find" ELSE "register"]
  /\ opsLeft' = opsLeft - 1
  /\ usedTemp' = [usedTemp EXCEPT ![t][l] = @ \/ tmp]
  /\ usedNested' = [usedNested EXCEPT ![t][l] = @ \/ Live(t, l) > 0]
  /\ entersFixed' = (entersFixed /\ spc = "idle")
  /\ UNCHANGED <<registered, mutex, counts, ms, statusVars, ctors, durs,
                 exitedCtors, stable>>

\* Reference's constructor: lock the membership mutex, add the new (empty)
\* map to the collection, unlock.  Waits while status() holds the mutex.
Register(t) ==
  /\ Running
  /\ pc[t] = "register"
  /\ mutex = "free"
  /\ registered' = registered \cup {t}
  /\ counts' = [counts EXCEPT ![t] = EmptyMap]
  /\ pc' = [pc EXCEPT ![t] = "c_find"]
  /\ UNCHANGED <<now, mutex, stack, ms, statusVars, opsLeft, ctors, durs,
                 usedTemp, usedNested, exitedCtors, stable, entersFixed>>

\* Mutant: withValue takes the registry's membership mutex.
WithValueLocked(t) == t \in registered /\ mutex = "free"

\* threadLocalTraceData.withValue(fn): fn runs on the calling thread's own
\* map, which its Reference holds once constructed; no lock is taken.
WithValue(t) == t \in registered

\* auto& data = counts[label_];   fetch-or-create
CtorFindData(m, l) == IF l \in DOMAIN m THEN m ELSE Put(m, l, ZeroData)

CtorFind(t) ==
  /\ Running
  /\ pc[t] = "c_find"
  /\ WithValue(t)
  /\ counts' = [counts EXCEPT ![t] = CtorFindData(@, Top(t).label)]
  /\ pc' = [pc EXCEPT ![t] = "c_incT"]
  /\ Touch
  /\ UNCHANGED <<now, registered, mutex, stack, ms, statusVars, opsLeft, ctors,
                 durs, usedTemp, usedNested, exitedCtors, entersFixed>>

\* Mutant: the active count is set, not incremented.
CtorIncThreadsDataSet(d) == [d EXCEPT !.numThreads = 1]

\* ++data.numThreads;
CtorIncThreadsData(d) == [d EXCEPT !.numThreads = @ + 1]

CtorIncThreads(t) ==
  /\ Running
  /\ pc[t] = "c_incT"
  /\ WithValue(t)
  /\ counts' = [counts EXCEPT ![t][Top(t).label] = CtorIncThreadsData(@)]
  /\ pc' = [pc EXCEPT ![t] = "c_start"]
  /\ Touch
  /\ UNCHANGED <<now, registered, mutex, stack, ms, statusVars, opsLeft, ctors,
                 durs, usedTemp, usedNested, exitedCtors, entersFixed>>

\* Mutant: every construction sets the start time.
CtorStartDataAlways(d, enterTime) == [d EXCEPT !.startTime = enterTime]

\* if (data.numThreads == 1) { data.startTime = enterTime_; }
CtorStartData(d, enterTime) ==
  IF d.numThreads = 1 THEN [d EXCEPT !.startTime = enterTime] ELSE d

CtorStart(t) ==
  /\ Running
  /\ pc[t] = "c_start"
  /\ WithValue(t)
  /\ counts' = [counts EXCEPT ![t][Top(t).label] =
                  CtorStartData(@, Top(t).enterTime)]
  /\ pc' = [pc EXCEPT ![t] = "c_incE"]
  /\ Touch
  /\ UNCHANGED <<now, registered, mutex, stack, ms, statusVars, opsLeft, ctors,
                 durs, usedTemp, usedNested, exitedCtors, entersFixed>>

\* Mutant: an enter is counted only on the 0 -> 1 transition.
CtorIncEntersDataOuterOnly(d) ==
  IF d.numThreads = 1 THEN [d EXCEPT !.numEnters = @ + 1] ELSE d

\* ++data.numEnters;
CtorIncEntersData(d) == [d EXCEPT !.numEnters = @ + 1]

CtorIncEnters(t) ==
  /\ Running
  /\ pc[t] = "c_incE"
  /\ WithValue(t)
  /\ counts' = [counts EXCEPT ![t][Top(t).label] = CtorIncEntersData(@)]
  /\ pc' = [pc EXCEPT ![t] = "idle"]
  /\ ctors' = [ctors EXCEPT ![t][Top(t).label] = @ + 1]
  /\ Touch
  /\ UNCHANGED <<now, registered, mutex, stack, ms, statusVars, opsLeft, durs,
                 usedTemp, usedNested, exitedCtors, entersFixed>>

\* ----------------------------------------------- TraceContext::~TraceContext
\* Mutant: a temporary context erases the entry whatever the count.
DtorErasesAnyTemporary(d, tmp) == tmp

\* Mutant: post-decrement, data.numThreads-- == 0.
DtorErasesPostDecrement(d, tmp) == d.numThreads = 0 /\ tmp

\* --data.numThreads == 0 && isTemporary_
DtorErases(d, tmp) == d.numThreads - 1 = 0 /\ tmp

\* Mutant: the temporary rule clears the map instead of erasing one entry.
DtorDecMapClear(m, l, tmp) ==
  IF m[l].numThreads - 1 = 0 /\ tmp
    THEN EmptyMap
    ELSE [m EXCEPT ![l].numThreads = @ - 1]

\* auto it = counts.find(label_); if (--data.numThreads == 0 && isTemporary_)
\* { counts.erase(it); return; }
DtorDecMap(m, l, tmp) ==
  IF DtorErases(m[l], tmp)
    THEN Erase(m, l)
    ELSE [m EXCEPT ![l].numThreads = @ - 1]

\* The destructor of the innermost live context of t (LIFO scoping), up to
\* the early return.  find() of an absent label has no defined result: the
\* thread then stops in "ub".
DtorDec(t) ==
  /\ Running
  /\ pc[t] = "idle"
  /\ stack[t] # <<>>
  /\ WithValue(t)
  /\ LET c == Top(t) IN
       IF c.label \notin DOMAIN counts[t]
         THEN /\ pc' = [pc EXCEPT ![t] = "ub"]
              /\ UNCHANGED <<counts, stack, stable>>
         ELSE /\ counts' = [counts EXCEPT ![t] =
                              DtorDecMap(@, c.label, c.isTemporary)]
              /\ Touch
              /\ IF DtorErases(counts[t][c.label], c.isTemporary)
                   THEN /\ stack' = [stack EXCEPT ![t] = SubSeq(@, 1, Len(@) - 1)]
                        /\ pc' = pc
                   ELSE /\ stack' = stack
                        /\ pc' = [pc EXCEPT ![t] = "d_total"]
  /\ UNCHANGED <<now, registered, mutex, ms, statusVars, opsLeft, ctors, durs,
                 usedTemp, usedNested, exitedCtors, entersFixed>>

\* Mutant: = instead of +=.
DtorTotalDataAssign(d, elapsed) == [d EXCEPT !.totalMs = elapsed]

\* auto ms = duration_cast<milliseconds>(now() - enterTime_).count();
\* data.totalMs += ms;
DtorTotalData(d, elapsed) == [d EXCEPT !.totalMs = @ + elapsed]

DtorTotal(t) ==
  /\ Running
  /\ pc[t] = "d_total"
  /\ WithValue(t)
  /\ now' \in ClockReadings
  /\ ms' = [ms EXCEPT ![t] = ElapsedMs(now', Top(t).enterTime)]
  /\ counts' = [counts EXCEPT ![t][Top(t).label] =
                  DtorTotalData(@, ElapsedMs(now', Top(t).enterTime))]
  /\ pc' = [pc EXCEPT ![t] = "d_max"]
  /\ Touch
  /\ UNCHANGED <<registered, mutex, stack, statusVars, opsLeft, ctors, durs,
                 usedTemp, usedNested, exitedCtors, entersFixed>>

\* Mutant: std::min instead of std::max.
DtorMaxDataMin(d, elapsed) == [d EXCEPT !.maxMs = Min(@, elapsed)]

\* Mutant: the last duration replaces the maximum.
DtorMaxDataLast(d, elapsed) == [d EXCEPT !.maxMs = elapsed]

\* data.maxMs = std::max<uint64_t>(data.maxMs, ms);
DtorMaxData(d, elapsed) == [d EXCEPT !.maxMs = Max(@, elapsed)]

DtorMax(t) ==
  /\ Running
  /\ pc[t] = "d_max"
  /\ WithValue(t)
  /\ counts' = [counts EXCEPT ![t][Top(t).label] = DtorMaxData(@, ms[t])]
  /\ durs' = [durs EXCEPT ![t][Top(t).label] = Append(@, ms[t])]
  /\ ms' = [ms EXCEPT ![t] = 0]
  /\ stack' = [stack EXCEPT ![t] = SubSeq(@, 1, Len(@) - 1)]
  /\ pc' = [pc EXCEPT ![t] = "idle"]
  /\ Touch
  /\ UNCHANGED <<now, registered, mutex, statusVars, opsLeft, ctors, usedTemp,
                 usedNested, exitedCtors, entersFixed>>

\* ------------------------------------------------------------ thread exit
\* The thread_local Reference is destroyed when its thread terminates: under
\* the mutex the map is removed from the collection, then it is destroyed.
\* A later thread may run under the same id, with a new map.
ThreadExit(t) ==
  /\ Running
  /\ pc[t] = "idle"
  /\ stack[t] = <<>>
  /\ t \in registered
  /\ mutex = "free"
  /\ registered' = registered \ {t}
  /\ counts' = [counts EXCEPT ![t] = EmptyMap]
  /\ exitedCtors' = [l \in Labels |-> exitedCtors[l] +
                        (IF usedTemp[t][l] THEN 0 ELSE ctors[t][l])]
  /\ ctors' = [ctors EXCEPT ![t] = [l \in Labels |-> 0]]
  /\ durs' = [durs EXCEPT ![t] = [l \in Labels |-> <<>>]]
  /\ usedTemp' = [usedTemp EXCEPT ![t] = [l \in Labels |-> FALSE]]
  /\ usedNested' = [usedNested EXCEPT ![t] = [l \in Labels |-> FALSE]]
  /\ Touch
  /\ entersFixed' = (entersFixed /\ spc = "idle")
  /\ UNCHANGED <<now, mutex, stack, pc, ms, statusVars, opsLeft>>

\* ------------------------------------------------------ TraceContext::status
\* One iteration of `for (auto& [k, v] : counts)` merges entry v of key k
\* into total.
\* Mutant: std::max instead of std::min.
MergeStartTimeMax(sofar, v) ==
  IF sofar.numEnters = 0
    THEN v.startTime
    ELSE IF v.numEnters > 0
           THEN Max(sofar.startTime, v.startTime)
           ELSE sofar.startTime

\* Mutant: the start time of the entry merged last wins.
MergeStartTimeLast(sofar, v) == v.startTime

\* if (sofar.numEnters == 0) ... else if (v.numEnters > 0) ...
MergeStartTime(sofar, v) ==
  IF sofar.numEnters = 0
    THEN v.startTime
    ELSE IF v.numEnters > 0
           THEN Min(sofar.startTime, v.startTime)
           ELSE sofar.startTime

\* sofar.numThreads += v.numThreads;
MergeNumThreads(sofar, v) == sofar.numThreads + v.numThreads

\* Mutant: = instead of +=.
MergeNumEntersAssign(sofar, v) == v.numEnters

\* Mutant: the active count is added to the enters.
MergeNumEntersOfThreads(sofar, v) == sofar.numEnters + v.numThreads

\* sofar.numEnters += v.numEnters;
MergeNumEnters(sofar, v) == sofar.numEnters + v.numEnters

\* Mutant: = instead of +=.
MergeTotalMsAssign(sofar, v) == v.totalMs

\* sofar.totalMs += v.totalMs;
MergeTotalMs(sofar, v) == sofar.totalMs + v.totalMs

\* sofar.maxMs = std::max(sofar.maxMs, v.maxMs);
MergeMaxMs(sofar, v) == Max(sofar.maxMs, v.maxMs)

\* auto& sofar = total[k]; and the body of the loop.
MergeEntry(tot, k, v) ==
  LET sofar == Get(tot, k)
  IN  Put(tot, k, [numThreads |-> MergeNumThreads(sofar, v),
                   numEnters  |-> MergeNumEnters(sofar, v),
                   totalMs    |-> MergeTotalMs(sofar, v),
                   maxMs      |-> MergeMaxMs(sofar, v),
                   startTime  |-> MergeStartTime(sofar, v)])

\* The loop over one map, and forAllValues over a set of maps, run with no
\* writer interleaved (keys and maps taken in a fixed order).
RECURSIVE MergeMap(_, _, _)
MergeMap(tot, m, keys) ==
  IF keys = {} THEN tot
  ELSE LET k == CHOOSE x \in keys : TRUE
       IN  MergeMap(MergeEntry(tot, k, m[k]), m, keys \ {k})

RECURSIVE MergeAll(_, _)
MergeAll(tot, ts) ==
  IF ts = {} THEN tot
  ELSE LET t == CHOOSE x \in ts : TRUE
       IN  MergeAll(MergeMap(tot, counts[t], DOMAIN counts[t]), ts \ {t})

\* status() called and returned with no writer interleaved.
StatusNow == MergeAll(EmptyMap, registered)

\* forAllValues over the maps of the threads in ts, visited in the order of
\* the sequence, with no writer interleaved.
RECURSIVE MergeThreads(_, _)
MergeThreads(tot, ts) ==
  IF ts = <<>> THEN tot
  ELSE MergeThreads(MergeMap(tot, counts[Head(ts)], DOMAIN counts[Head(ts)]),
                    Tail(ts))

\* Mutant: the enumeration does not take the membership mutex.
StatusBeginUnlocked ==
  /\ spc = "idle"
  /\ mutex' = mutex
  /\ spc' = "enum"
  /\ total' = EmptyMap
  /\ curT' = NoThread
  /\ visitedL' = {}
  /\ doneT' = {}
  /\ stable' = TRUE
  /\ entersFixed' = (\A t \in Threads : pc[t] \notin CtorPcs)
  /\ UNCHANGED <<now, threadVars>>

\* F14FastMap total; registry->forAllValues(...) locks the membership mutex.
StatusBegin ==
  /\ spc = "idle"
  /\ mutex = "free"
  /\ mutex' = "status"
  /\ spc' = "enum"
  /\ total' = EmptyMap
  /\ curT' = NoThread
  /\ visitedL' = {}
  /\ doneT' = {}
  /\ stable' = TRUE
  /\ entersFixed' = (\A t \in Threads : pc[t] \notin CtorPcs)
  /\ UNCHANGED <<now, threadVars>>

\* forAllValues calls the lambda on the next registered map, in any order.
StatusPickMap(t) ==
  /\ spc = "enum"
  /\ curT = NoThread
  /\ t \in registered \ doneT
  /\ curT' = t
  /\ visitedL' = {}
  /\ UNCHANGED <<now, threadVars, mutex, spc, total, doneT, stable, entersFixed>>

\* The loop body on the next entry of the current map, in any order; the map
\* is read as its owner has left it at this moment.
StatusMergeEntry(k) ==
  /\ spc = "enum"
  /\ curT # NoThread
  /\ k \in DOMAIN counts[curT] \ visitedL
  /\ total' = MergeEntry(total, k, counts[curT][k])
  /\ visitedL' = visitedL \cup {k}
  /\ UNCHANGED <<now, threadVars, mutex, spc, curT, doneT, stable, entersFixed>>

\* The loop over the current map ends.
StatusFinishMap ==
  /\ spc = "enum"
  /\ curT # NoThread
  /\ DOMAIN counts[curT] \subseteq visitedL
  /\ doneT' = doneT \cup {curT}
  /\ curT' = NoThread
  /\ visitedL' = {}
  /\ UNCHANGED <<now, threadVars, mutex, spc, total, stable, entersFixed>>

\* Mutant: status() returns without unlocking the membership mutex.
StatusEndKeepsLock ==
  /\ spc = "enum"
  /\ curT = NoThread
  /\ registered \subseteq doneT
  /\ mutex' = mutex
  /\ spc' = "done"
  /\ doneT' = {}
  /\ UNCHANGED <<now, threadVars, total, curT, visitedL, stable, entersFixed>>

\* forAllValues unlocks; return total.
StatusEnd ==
  /\ spc = "enum"
  /\ curT = NoThread
  /\ registered \subseteq doneT
  /\ mutex' = "free"
  /\ spc' = "done"
  /\ doneT' = {}
  /\ UNCHANGED <<now, threadVars, total, curT, visitedL, stable, entersFixed>>

\* The caller (statusLine() after its output, or a direct caller of
\* status()) drops the returned map.
StatusReturn ==
  /\ spc \in {"done", "printed"}
  /\ spc' = "idle"
  /\ total' = EmptyMap
  /\ stable' = TRUE
  /\ entersFixed' = TRUE
  /\ UNCHANGED <<now, threadVars, mutex, curT, visitedL, doneT>>

\* ------------------------------------------------- TraceContext::statusLine
\* The labels statusLine() prints a line for: if (pair.second.numThreads).
LinesOf(tot) == {k \in DOMAIN tot : tot[k].numThreads # 0}

\* pair.second.totalMs / pair.second.numEnters has no value for numEnters 0.
DividesByZero(tot) == \E k \in LinesOf(tot) : tot[k].numEnters = 0

\* statusLine() on the map status() returned: one line per entry that
\* passes `if (pair.second.numThreads)`.  The clock reading of the loop goes
\* only into the text of the line.  An integer division by zero is undefined:
\* the build either traps, which terminates the process before any output,
\* or yields some quotient and the line is printed.
StatusRender ==
  /\ spc = "done"
  /\ IF DividesByZero(total)
       THEN spc' \in {"crashed", "printed"}
       ELSE spc' = "printed"
  /\ UNCHANGED <<now, threadVars, mutex, total, curT, visitedL, doneT, stable,
                 entersFixed>>

\* The labels of the lines a completed statusLine() has emitted.
Emitted == IF spc = "printed" THEN LinesOf(total) ELSE {}

\* ------------------------------------------------------------------ Next
Next ==
  \/ \E t \in Threads, l \in Labels, tmp \in BOOLEAN : CtorBegin(t, l, tmp)
  \/ \E t \in Threads : Register(t)
  \/ \E t \in Threads : CtorFind(t)
  \/ \E t \in Threads : CtorIncThreads(t)
  \/ \E t \in Threads : CtorStart(t)
  \/ \E t \in Threads : CtorIncEnters(t)
  \/ \E t \in Threads : DtorDec(t)
  \/ \E t \in Threads : DtorTotal(t)
  \/ \E t \in Threads : DtorMax(t)
  \/ \E t \in Threads : ThreadExit(t)
  \/ StatusBegin
  \/ \E t \in Threads : StatusPickMap(t)
  \/ \E k \in Labels : StatusMergeEntry(k)
  \/ StatusFinishMap
  \/ StatusEnd
  \/ StatusRender
  \/ StatusReturn

Spec == Init /\ [][Next]_vars

\* The steps of thread t alone.
ThreadNext(t) ==
  \/ \E l \in Labels, tmp \in BOOLEAN : CtorBegin(t, l, tmp)
  \/ Register(t)
  \/ CtorFind(t)
  \/ CtorIncThreads(t)
  \/ CtorStart(t)
  \/ CtorIncEnters(t)
  \/ DtorDec(t)
  \/ DtorTotal(t)
  \/ DtorMax(t)
  \/ ThreadExit(t)

StatusNext ==
  \/ StatusBegin
  \/ \E t \in Threads : StatusPickMap(t)
  \/ \E k \in Labels : StatusMergeEntry(k)
  \/ StatusFinishMap
  \/ StatusEnd
  \/ StatusRender
  \/ StatusReturn

NextSeq == ThreadNext("A")

SpecSeq == InitSeq /\ [][NextSeq]_vars

\* ------------------------------------------------------------- progress
\* Threads and a caller of status() (statusLine()'s output is no part of
\* it), with the clock at its last instant: elapsed times play no part in
\* progress.
InitLive == InitCommon /\ now = MaxTime /\ opsLeft = MaxOps

\* The steps of a status() call that holds the mutex.
StatusSteps ==
  \/ \E t \in Threads : StatusPickMap(t)
  \/ \E k \in Labels : StatusMergeEntry(k)
  \/ StatusFinishMap
  \/ StatusEnd

\* The steps of a constructor or destructor of thread t that has started
\* and works on its own map.
OperationSteps(t) ==
  \/ CtorFind(t)
  \/ CtorIncThreads(t)
  \/ CtorStart(t)
  \/ CtorIncEnters(t)
  \/ DtorTotal(t)
  \/ DtorMax(t)

NextLive ==
  \/ \E t \in Threads, l \in Labels, tmp \in BOOLEAN : CtorBegin(t, l, tmp)
  \/ \E t \in Threads : Register(t)
  \/ \E t \in Threads : OperationSteps(t)
  \/ \E t \in Threads : DtorDec(t)
  \/ \E t \in Threads : ThreadExit(t)
  \/ StatusBegin
  \/ StatusSteps
  \/ StatusReturn

\* Fair scheduling: a running status() call and a running constructor or
\* destructor keep being scheduled; a thread blocked in front of the
\* membership mutex obtains it if it is free again and again (the mutex
\* does not starve a waiter).  Calling status(), constructing, destructing
\* and exiting are the program's choice and are not forced.
Fairness ==
  /\ WF_vars(StatusSteps)
  /\ \A t \in Threads : WF_vars(OperationSteps(t))
  /\ \A t \in Threads : SF_vars(Register(t))

SpecLive == InitLive /\ [][NextLive]_vars /\ Fairness

TypeOK ==
  /\ now \in 1..MaxTime
  /\ registered \subseteq Threads
  /\ mutex \in {"free", "status"}
  /\ \A t \in Threads : DOMAIN counts[t] \subseteq Labels
  /\ \A t \in Threads : pc[t] \in {"idle"} \cup CtorPcs \cup DtorPcs

\* ======================================================================
\* Properties
\* ======================================================================

\* The step of this behaviour is a destructor of thread t starting: its
\* lookup, decrement and, for a temporary context, erase.
DtorStarts(t) ==
  /\ pc[t] = "idle"
  /\ stack[t] # <<>>
  /\ \/ pc'[t] = "d_total"
     \/ pc'[t] = "ub"
     \/ Len(stack'[t]) < Len(stack[t])

\* C1: when no constructor or destructor is running on a thread, every entry
\* of its map has numThreads >= 0 and numEnters >= numThreads, for any mix of
\* labels, nesting and temporary contexts.
C1_CountsOrdered ==
  \A t \in Threads :
    pc[t] = "idle" =>
      \A l \in DOMAIN counts[t] :
        /\ counts[t][l].numThreads >= 0
        /\ counts[t][l].numEnters >= counts[t][l].numThreads

\* A label used nested and by a temporary context, one context still live
\* after three completed constructions.
C1_Witness ==
  \E l \in Labels :
    /\ pc["A"] = "idle"
    /\ l \in DOMAIN counts["A"]
    /\ usedTemp["A"][l]
    /\ usedNested["A"][l]
    /\ counts["A"][l].numThreads = 1
    /\ counts["A"][l].numEnters = 3

\* C2: when no constructor or destructor is running on thread t, numThreads of
\* its entry for l (0 when absent) is the number of live contexts of l on t,
\* temporary or not; and when l was never used by a temporary context there,
\* numEnters counts every construction and totalMs is the sum of the spans of
\* the completed activations (nested ones included).
C2_ActiveCount ==
  \A t \in Threads : \A l \in Labels :
    pc[t] = "idle" =>
      /\ Get(counts[t], l).numThreads = Live(t, l)
      /\ ~usedTemp[t][l] =>
           /\ Get(counts[t], l).numEnters = ctors[t][l]
           /\ Get(counts[t], l).totalMs = SumSeq(durs[t][l])

\* Both nested activations of "x" are over: numThreads 0, numEnters 2 and
\* totalMs holding both spans.
C2_Witness ==
  /\ pc["A"] = "idle"
  /\ stack["A"] = <<>>
  /\ usedNested["A"]["x"]
  /\ ~usedTemp["A"]["x"]
  /\ "x" \in DOMAIN counts["A"]
  /\ counts["A"]["x"].numThreads = 0
  /\ counts["A"]["x"].numEnters = 2
  /\ durs["A"]["x"] = <<1, 2>>
  /\ counts["A"]["x"].totalMs = 3

\* C9: after N sequential, non-overlapping activations of a non-temporary
\* label l on thread t, with durations d1..dN in whole milliseconds, the entry
\* is {numThreads: 0, numEnters: N, totalMs: d1 + ... + dN, maxMs: max(di)},
\* and status() returns the same four values for l when no other thread has
\* an entry for l.
C9_Sequential ==
  \A t \in Threads : \A l \in Labels :
    ( /\ pc[t] = "idle"
      /\ Live(t, l) = 0
      /\ ctors[t][l] > 0
      /\ ~usedTemp[t][l]
      /\ ~usedNested[t][l] ) =>
      LET N == Len(durs[t][l])
          want == [numThreads |-> 0, numEnters |-> N,
                   totalMs |-> SumSeq(durs[t][l]), maxMs |-> MaxSeq(durs[t][l])]
          four(d) == [numThreads |-> d.numThreads, numEnters |-> d.numEnters,
                      totalMs |-> d.totalMs, maxMs |-> d.maxMs]
      IN  /\ N = ctors[t][l]
          /\ l \in DOMAIN counts[t]
          /\ four(counts[t][l]) = want
          /\ (\A u \in Threads \ {t} : l \notin DOMAIN counts[u]) =>
               /\ l \in DOMAIN StatusNow
               /\ four(StatusNow[l]) = want

\* Three sequential activations of "x" of 1, 1 and 0 ms: the total (2) and
\* the maximum (1) differ.
C9_Witness ==
  /\ pc["A"] = "idle"
  /\ stack["A"] = <<>>
  /\ ~usedTemp["A"]["x"]
  /\ ~usedNested["A"]["x"]
  /\ durs["A"]["x"] = <<1, 1, 0>>
  /\ counts["A"]["x"].totalMs = 2
  /\ counts["A"]["x"].maxMs = 1

\* C10: the destructor of a temporary context of l, run when it is the only
\* live context of l on its thread, leaves the thread's map without an entry
\* for l and every other entry as it was; so a map without l before the
\* construction is without l after the destruction.
C10_TemporaryRoundTrip ==
  [][\A t \in Threads :
       ( /\ DtorStarts(t)
         /\ Top(t).isTemporary
         /\ Live(t, Top(t).label) = 1 ) =>
         /\ Top(t).label \notin DOMAIN counts'[t]
         /\ Len(stack'[t]) = Len(stack[t]) - 1
         /\ pc'[t] = "idle"
         /\ \A k \in Labels \ {Top(t).label} :
              /\ (k \in DOMAIN counts'[t]) = (k \in DOMAIN counts[t])
              /\ Get(counts'[t], k) = Get(counts[t], k)]_vars

\* The only construction of "x" on the thread was temporary, on a map that
\* had no "x", and it has been destroyed: the map has no "x" again.
C10_Witness ==
  /\ pc["A"] = "idle"
  /\ stack["A"] = <<>>
  /\ "A" \in registered
  /\ ctors["A"]["x"] = 1
  /\ usedTemp["A"]["x"]
  /\ "x" \notin DOMAIN counts["A"]

\* Completed constructions of l by the threads of ts.
RECURSIVE SumCtors(_, _)
SumCtors(ts, l) ==
  IF ts = {} THEN 0
  ELSE LET t == CHOOSE x \in ts : TRUE
       IN  ctors[t][l] + SumCtors(ts \ {t}, l)

\* The counters of a TraceData, without its start time.
Four(d) == [numThreads |-> d.numThreads, numEnters |-> d.numEnters,
            totalMs |-> d.totalMs, maxMs |-> d.maxMs]

\* Sums and maximum of the entries for l in the maps of the threads of ts.
RECURSIVE SumEntries(_, _)
SumEntries(ts, l) ==
  IF ts = {} THEN Four(ZeroData)
  ELSE LET t == CHOOSE x \in ts : TRUE
           d == Get(counts[t], l)
           r == SumEntries(ts \ {t}, l)
       IN  [numThreads |-> r.numThreads + d.numThreads,
            numEnters |-> r.numEnters + d.numEnters,
            totalMs |-> r.totalMs + d.totalMs,
            maxMs |-> Max(r.maxMs, d.maxMs)]

\* C3: in every map status() returns, under any interleaving with running
\* constructors and destructors, numThreads > 0 implies
\* numEnters >= numThreads >= 1, so statusLine() never divides by zero.
C3_DivisionDefined ==
  spc = "done" =>
    /\ ~DividesByZero(total)
    /\ \A l \in DOMAIN total :
         total[l].numThreads > 0 =>
           /\ total[l].numEnters >= total[l].numThreads
           /\ total[l].numThreads >= 1

\* C4: when no constructor has run and no thread has exited since status()
\* began, and l was never used by a temporary context on a live thread, the
\* returned numEnters of l (0 when absent) is the sum over the live threads
\* of their completed constructions of l, also with destructors interleaved.
C4_EntersAdditive ==
  \A l \in Labels :
    ( /\ spc = "done"
      /\ entersFixed
      /\ \A t \in Threads : ~usedTemp[t][l] ) =>
      Get(total, l).numEnters = SumCtors(registered, l)

\* Both threads constructed "x" once, and a destructor ran while status()
\* was enumerating.
C4_Witness ==
  /\ spc = "done"
  /\ entersFixed
  /\ ~stable
  /\ \A t \in Threads : ~usedTemp[t]["x"]
  /\ ctors["A"]["x"] = 1
  /\ ctors["B"]["x"] = 1
  /\ Get(total, "x").numEnters = 2

\* C5 as stated: a status() call made after a thread has exited still
\* includes the enters of a non-temporary label l that thread completed.
C5_ExitedIncluded ==
  \A l \in Labels :
    (spc = "done" /\ entersFixed) => Get(total, l).numEnters >= exitedCtors[l]

\* C5 amended: status() reports the registered maps only; after a thread that
\* completed activations of l has exited, a status() call with no writer
\* interleaved returns for l exactly the sums and the maximum over the maps
\* still registered.
C5_RegisteredOnly ==
  \A l \in Labels :
    (spc = "done" /\ stable /\ exitedCtors[l] > 0) =>
      Four(Get(total, l)) = SumEntries(registered, l)

\* A thread completed an activation of "x" and exited; the other thread's
\* entry for "x" is all that status() reports.
C5_Witness ==
  /\ spc = "done"
  /\ stable
  /\ exitedCtors["x"] = 1
  /\ registered = {"B"}
  /\ Get(counts["B"], "x").numEnters = 1
  /\ Get(total, "x").numEnters = 1

\* C6 as stated: while the process runs, a thread inside a constructor or
\* destructor can always take its next step.
C6_NeverWaits ==
  Running =>
    \A t \in Threads : pc[t] \in CtorPcs \cup DtorPcs => ENABLED ThreadNext(t)

\* C6 amended: on a thread whose map is registered, every step of a
\* constructor or destructor can be taken at once, whoever holds the mutex;
\* only the registration in a thread's first construction waits for it.
\* (All of it while the process runs.)
C6_RegisteredNeverWaits ==
  Running =>
    \A t \in Threads :
      /\ pc[t] \in (CtorPcs \cup DtorPcs) \ {"register"} => ENABLED ThreadNext(t)
      /\ (pc[t] = "idle" /\ stack[t] # <<>>) => ENABLED DtorDec(t)
      /\ pc[t] = "register" => (ENABLED ThreadNext(t) <=> mutex = "free")

\* status() holds the mutex while one thread is inside a constructor and
\* another one is waiting to register.
C6_Witness ==
  /\ mutex = "status"
  /\ pc["A"] = "c_incT"
  /\ pc["B"] = "register"

\* The entry of l in t's map is changed by this step.
EntryChanged(t, l) ==
  \/ (l \in DOMAIN counts[t]) # (l \in DOMAIN counts'[t])
  \/ Get(counts[t], l) # Get(counts'[t], l)

\* This step belongs to a constructor or destructor of label l on thread t.
WritesEntry(t, l) ==
  /\ stack[t] # <<>>
  /\ Top(t).label = l
  /\ \/ pc[t] \in CtorPcs /\ pc'[t] # pc[t]
     \/ pc[t] \in DtorPcs /\ pc'[t] # pc[t]
     \/ DtorStarts(t)

\* C7: an entry of a per-thread map changes only in a step of a constructor
\* or destructor of that label on that thread (or when the thread exits and
\* its map is destroyed); the steps of status() change no per-thread map.
C7_Frame ==
  [][/\ \A t \in Threads : \A l \in Labels :
          EntryChanged(t, l) => (WritesEntry(t, l) \/ registered' # registered)
     /\ statusVars' # statusVars => counts' = counts]_vars

\* status() is enumerating B's map, which holds "y", while A is inside the
\* destructor of "x".
C7_Witness ==
  /\ spc = "enum"
  /\ curT = "B"
  /\ "y" \in DOMAIN counts["B"]
  /\ pc["A"] = "d_total"
  /\ Top("A").label = "x"

\* The start times of the registered entries for l that have been entered.
EnteredStartTimes(l) ==
  {counts[t][l].startTime :
     t \in {u \in registered : l \in DOMAIN counts[u] /\ counts[u][l].numEnters > 0}}

\* C8: in a map status() returns with no writer interleaved, startTime of l is
\* the minimum startTime over the registered entries for l with
\* numEnters > 0, in whatever order maps and entries were enumerated.
C8_StartTimeIsMin ==
  (spc = "done" /\ stable) =>
    \A l \in DOMAIN total :
      EnteredStartTimes(l) # {} =>
        /\ total[l].startTime \in EnteredStartTimes(l)
        /\ \A s \in EnteredStartTimes(l) : total[l].startTime <= s

\* Both threads have entered "x", at different times.
C8_Witness ==
  /\ spc = "done"
  /\ stable
  /\ registered = Threads
  /\ Cardinality(EnteredStartTimes("x")) = 2
  /\ "x" \in DOMAIN total

\* C11 as stated: over any sequence of constructions and destructions on a
\* live thread, temporary contexts included, totalMs and maxMs of a label
\* (0 for an absent entry) never decrease.
C11_NeverDecreases ==
  [][\A t \in Threads : \A l \in Labels :
       registered' = registered =>
         /\ Get(counts'[t], l).totalMs >= Get(counts[t], l).totalMs
         /\ Get(counts'[t], l).maxMs >= Get(counts[t], l).maxMs]_vars

\* C11 amended: as long as the entry of a label is not erased by the
\* destructor of a temporary context, its totalMs and maxMs never decrease,
\* and its totalMs changes only in the step of a destructor of that label
\* that adds the elapsed time of the activation it completes.
C11_GrowsWhileKept ==
  [][\A t \in Threads : \A l \in Labels :
       (l \in DOMAIN counts[t] /\ l \in DOMAIN counts'[t]) =>
         /\ counts'[t][l].totalMs >= counts[t][l].totalMs
         /\ counts'[t][l].maxMs >= counts[t][l].maxMs
         /\ counts'[t][l].totalMs # counts[t][l].totalMs =>
              /\ pc[t] = "d_total"
              /\ Top(t).label = l
              /\ pc'[t] = "d_max"]_vars

\* A label used by a temporary and a non-temporary context whose entry was
\* kept and has grown over two completed activations.
C11_Witness ==
  /\ pc["A"] = "idle"
  /\ usedTemp["A"]["x"]
  /\ durs["A"]["x"] = <<1, 1>>
  /\ "x" \in DOMAIN counts["A"]
  /\ counts["A"]["x"].totalMs = 2
  /\ counts["A"]["x"].maxMs = 1

\* C13: whenever a destructor can run on a thread (no constructor or
\* destructor is running there, or a destructor is past its lookup), the
\* thread's map holds an entry for the label of every live context, so the
\* lookup of the destructor never fails, also after temporary contexts of
\* the label erased the entry earlier.
C13_LookupSucceeds ==
  \A t \in Threads :
    /\ pc[t] # "ub"
    /\ pc[t] \in {"idle"} \cup DtorPcs =>
         \A i \in 1..Len(stack[t]) : stack[t][i].label \in DOMAIN counts[t]

\* A context of "x" is live on an entry created again after a temporary
\* context erased the first one.
C13_Witness ==
  /\ pc["A"] = "idle"
  /\ usedTemp["A"]["x"]
  /\ ctors["A"]["x"] = 2
  /\ Live("A", "x") = 1
  /\ "x" \in DOMAIN counts["A"]
  /\ counts["A"]["x"].numEnters = 1

\* C14: a destructor erases the entry of its label iff its context is
\* temporary and its decrement brings numThreads to 0; the erase discards the
\* whole entry and adds no duration.  Every other destructor keeps the entry
\* with numThreads one less, adds the elapsed milliseconds to totalMs and
\* sets maxMs to max(maxMs, elapsed).  No other step removes an entry of a
\* live thread.
C14_DestructRule ==
  [][\A t \in Threads :
       /\ DtorStarts(t) =>
            LET l == Top(t).label IN
            IF Top(t).isTemporary /\ counts[t][l].numThreads = 1
              THEN /\ l \notin DOMAIN counts'[t]
                   /\ pc'[t] = "idle"
                   /\ durs'[t] = durs[t]
              ELSE /\ l \in DOMAIN counts'[t]
                   /\ counts'[t][l] =
                        [counts[t][l] EXCEPT !.numThreads = @ - 1]
                   /\ pc'[t] = "d_total"
       /\ (pc[t] = "d_total" /\ pc'[t] # pc[t]) =>
            LET l == Top(t).label
                elapsed == (now' - Top(t).enterTime) \div TicksPerMs
            IN  /\ l \in DOMAIN counts'[t]
                /\ counts'[t][l] = [counts[t][l] EXCEPT !.totalMs = @ + elapsed]
                /\ ms'[t] = elapsed
       /\ (pc[t] = "d_max" /\ pc'[t] # pc[t]) =>
            LET l == Top(t).label
                d == counts[t][l]
            IN  /\ l \in DOMAIN counts'[t]
                /\ counts'[t][l] =
                     [d EXCEPT !.maxMs = IF d.maxMs >= ms[t] THEN d.maxMs ELSE ms[t]]
       /\ \A k \in Labels :
            ( /\ k \in DOMAIN counts[t]
              /\ k \notin DOMAIN counts'[t]
              /\ registered' = registered ) =>
              /\ DtorStarts(t)
              /\ Top(t).label = k
              /\ Top(t).isTemporary
              /\ counts[t][k].numThreads = 1]_vars

\* A temporary context of "x" erased an entry that held the enters and the
\* duration of an earlier non-temporary activation of "x".
C14_Witness ==
  /\ pc["A"] = "idle"
  /\ stack["A"] = <<>>
  /\ "A" \in registered
  /\ usedTemp["A"]["x"]
  /\ ctors["A"]["x"] = 2
  /\ durs["A"]["x"] = <<1>>
  /\ "x" \notin DOMAIN counts["A"]

\* The enterTime of the outermost context of label l in the stack st.
OutermostEnter(st, l) ==
  st[CHOOSE i \in 1..Len(st) :
       st[i].label = l /\ \A j \in 1..(i - 1) : st[j].label # l].enterTime

\* C15: startTime of an entry changes only when a construction moves
\* numThreads from 0 to 1, and then becomes that construction's enterTime; a
\* nested construction and every destruction leave it unchanged, so between
\* operations it is the enterTime of the outermost live context of the
\* label; every construction increments numEnters.
C15_StartTime ==
  [][\A t \in Threads : \A l \in Labels :
       /\ ( /\ pc'[t] = "idle"
            /\ \E i \in 1..Len(stack'[t]) : stack'[t][i].label = l ) =>
            /\ l \in DOMAIN counts'[t]
            /\ counts'[t][l].startTime = OutermostEnter(stack'[t], l)
       /\ ( /\ l \in DOMAIN counts[t]
            /\ l \in DOMAIN counts'[t]
            /\ counts'[t][l].startTime # counts[t][l].startTime ) =>
            /\ pc[t] = "c_start"
            /\ Top(t).label = l
            /\ counts[t][l].numThreads = 1
            /\ counts'[t][l].startTime = Top(t).enterTime
       /\ (pc[t] = "c_incE" /\ pc'[t] = "idle" /\ Top(t).label = l) =>
            counts'[t][l].numEnters = counts[t][l].numEnters + 1]_vars

\* Two nested contexts of "x" entered at different times: startTime is the
\* outer one's enterTime.
C15_Witness ==
  /\ pc["A"] = "idle"
  /\ Len(stack["A"]) = 2
  /\ stack["A"][1].label = "x"
  /\ stack["A"][2].label = "x"
  /\ stack["A"][1].enterTime < stack["A"][2].enterTime
  /\ counts["A"]["x"].startTime = stack["A"][1].enterTime
  /\ counts["A"]["x"].numEnters = 2

\* C12: statusLine() emits exactly one line for each label whose aggregated
\* numThreads in the map of status() is greater than 0 and no line for any
\* other label: every call on a returned map completes, and the labels of
\* its lines are the labels with numThreads > 0.
C12_OneLinePerActive ==
  spc \in {"printed", "crashed"} =>
    /\ spc = "printed"
    /\ Emitted = {k \in DOMAIN total : total[k].numThreads > 0}

\* No thread is inside a constructor or destructor and none has touched
\* its map since the status() call behind `total` began.
Quiescent == stable /\ \A t \in Threads : pc[t] = "idle"

\* C16: while status() enumerates it holds the membership mutex; no thread
\* registers or deregisters during the enumeration, each map registered at
\* that time is visited exactly once, and only maps of registered threads
\* are read.
C16_ExclusiveEnumeration ==
  [][spc = "enum" =>
       /\ mutex = "status"
       /\ registered' = registered
       /\ doneT \subseteq registered
       /\ curT # NoThread => curT \in registered \ doneT
       /\ (curT' # curT /\ curT' # NoThread) => curT' \in registered \ doneT
       /\ total' # total => curT \in registered
       /\ spc' = "done" => doneT = registered]_vars

\* Thread A is inside its first construct, waiting to register, while the
\* enumeration has visited the map of B.
C16_Witness ==
  /\ spc = "enum"
  /\ pc["A"] = "register"
  /\ doneT = {"B"}
  /\ registered = {"B"}

\* C18: for the maps the registered threads hold at any moment, status()
\* yields the same merged map whichever thread's map the registry
\* enumerates first, entries with numEnters = 0 included.
C18_OrderIndependent ==
  registered = Threads =>
    MergeThreads(EmptyMap, <<"A", "B">>) = MergeThreads(EmptyMap, <<"B", "A">>)

\* C19: in the result of a status() call during which no construct or
\* destruct was running, the startTime of every label with numThreads > 0
\* is at most the enterTime of every live context of that label on a
\* registered thread.
C19_StartTimeCoversLive ==
  (spc = "done" /\ Quiescent) =>
    \A l \in DOMAIN total :
      total[l].numThreads > 0 =>
        \A t \in registered : \A i \in 1..Len(stack[t]) :
          stack[t][i].label = l => total[l].startTime <= stack[t][i].enterTime

\* Both threads hold a live context of "x", entered at different times.
C19_Witness ==
  /\ spc = "done"
  /\ Quiescent
  /\ Live("A", "x") = 1
  /\ Live("B", "x") = 1
  /\ Top("A").enterTime # Top("B").enterTime
  /\ total["x"].numThreads = 2

\* C20: between operations every entry of every per-thread map has
\* maxMs <= totalMs, and so has every entry of the result of a status() call
\* during which no construct or destruct was running.
C20_MaxWithinTotal ==
  /\ \A t \in Threads :
       pc[t] = "idle" =>
         \A l \in DOMAIN counts[t] : counts[t][l].maxMs <= counts[t][l].totalMs
  /\ (spc = "done" /\ Quiescent) =>
       \A l \in DOMAIN total : total[l].maxMs <= total[l].totalMs

\* status() merged two completed activations of "x" of one millisecond each,
\* one per thread.
C20_Witness ==
  /\ spc = "done"
  /\ Quiescent
  /\ "x" \in DOMAIN total
  /\ total["x"].numEnters = 2
  /\ total["x"].totalMs = 2
  /\ total["x"].maxMs = 1

====
